---- MODULE Spec2Model ----
(***************************************************************************)
(* A model of the video "uniquifier" bot: the intake handlers on_video and  *)
(* on_copies (src/bot.py), the job coroutine process_and_send with its      *)
(* semaphore SEM (src/bot.py), the copy loop unique_video and the frame     *)
(* geometry of _unique_once (src/video_unique.py).                          *)
(*                                                                         *)
(* Every Bot API call (send_message, send_video, answer, get_file, ...) is *)
(* a network call that either returns or raises; the local file system     *)
(* (mkstemp, mkdtemp, os.remove, rmtree) is taken to work.  No code of the  *)
(* repository cancels a task, so cancellation is not modelled.             *)
(***************************************************************************)
EXTENDS Integers, Sequences, FiniteSets, TLC

\* ------------------------------------------------------------------ bounds
NumUsers == 1
MaxFiles == 3
MaxJobs == 3
MaxCopiesCfg == 2
MaxTotalCopies == 3

\* ------------------------------------------------------- program constants
WORKERS == 2
MAX_FILE_MB == 50

Users == 1..NumUsers

VARIABLES
    MAX_COPIES,     \* bot.py:24, read from the environment at import
    SEM,            \* bot.py:22, the semaphore's free value
    pending_files,  \* bot.py:28, dict user -> temp file
    files,          \* the temp files mkstemp has made: f -> [state, big]
    jobs,           \* the process_and_send tasks, one record per task
    too_big,        \* the "file too large" reply has been issued
    frame           \* the clip of one _unique_once call: its size per step

vars == <<MAX_COPIES, SEM, pending_files, files, jobs, too_big, frame>>

\* ------------------------------------------------------------------ paths
\* A path is a sequence of tokens; "/" and "." are the tokens os.path reads.

RECURSIVE LastIndexOf(_, _, _)
LastIndexOf(p, tok, n) ==
    IF n = 0 THEN 0
    ELSE IF p[n] = tok THEN n ELSE LastIndexOf(p, tok, n - 1)

\* os.path.basename: what follows the last "/".
basename(p) ==
    LET s == LastIndexOf(p, "/", Len(p))
    IN  SubSeq(p, s + 1, Len(p))

RECURSIVE AllDots(_, _)
AllDots(b, n) == IF n = 0 THEN TRUE ELSE b[n] = "." /\ AllDots(b, n - 1)

\* os.path.splitext(b)[0] of a name without "/": cut at the last ".", unless
\* only dots precede it (a leading-dot name has no extension).
splitext_root(b) ==
    LET k == LastIndexOf(b, ".", Len(b))
    IN  IF k = 0 \/ AllDots(b, k - 1) THEN b ELSE SubSeq(b, 1, k - 1)

\* os.path.join(d, name): a "/" between them unless d is empty or ends in "/".
path_join(d, name) ==
    IF Len(d) = 0 \/ d[Len(d)] = "/" THEN d \o name ELSE d \o <<"/">> \o name

\* An output path numbered from 0.
output_path_ZeroBased(input_path, output_dir, index) ==
    LET base_name == splitext_root(basename(input_path))
        output_name == base_name \o <<"_", ToString(index - 1), ".", "mp4">>
    IN  path_join(output_dir, output_name)

\* video_unique.py:175-178: the output path of copy `index`.
output_path(input_path, output_dir, index) ==
    LET base_name == splitext_root(basename(input_path))
        output_name == base_name \o <<"_", ToString(index), ".", "mp4">>
    IN  path_join(output_dir, output_name)

\* video_unique.py:216-218: the default output directory, "unique" beside
\* the source.  The paths of the model are absolute or bare names; a bare
\* name lies in the current directory, written <<"cwd">>.
default_output_dir(input_path) ==
    LET s == LastIndexOf(input_path, "/", Len(input_path))
        base_dir == IF s = 0 THEN <<"cwd">>
                    ELSE IF s = 1 THEN <<"/">> ELSE SubSeq(input_path, 1, s - 1)
    IN  path_join(base_dir, <<"unique">>)

\* tempfile.mkstemp / mkdtemp names: fresh per file / per job.
TmpPath(f) == <<"/", "tmp", "/", "tmp" \o ToString(f), ".", "mp4">>
WorkDir(j) == <<"/", "tmp", "/", "uniq_" \o ToString(j)>>

\* ------------------------------------------------------------------ intake
MAX_BYTES == MAX_FILE_MB * 1024 * 1024

\* An optional integer is <<>> (None) or <<n>>.
OrZero(opt) == IF opt = <<>> THEN 0 ELSE opt[1]

FileSizes == {<<>>, <<MAX_BYTES>>, <<MAX_BYTES + 1>>, <<60 * 1024 * 1024>>}

\* message.video / message.document with its mime type and file_size; a
\* message of another kind carries no file.
Messages ==
    {m \in [kind : {"video", "document", "text"}, mime_video : BOOLEAN,
            file_size : FileSizes] :
        /\ m.kind = "document" \/ ~m.mime_video
        /\ m.kind = "text" => m.file_size = <<>>}

\* bot.py:45-54: the message carries a video.
IsVideoMessage(m) ==
    \/ m.kind = "video"
    \/ m.kind = "document" /\ m.mime_video

\* A size check on whole megabytes: a file just above the limit passes.
TooLarge_WholeMegabytes(size) ==
    size # 0 /\ size \div (1024 * 1024) > MAX_FILE_MB

\* bot.py:57: the size check (a missing or zero size passes).
TooLarge(size) == size # 0 /\ size > MAX_BYTES

NextFile == Cardinality(DOMAIN files) + 1

\* dict assignment and dict.pop
DictSet(d, k, v) == [x \in DOMAIN d \cup {k} |-> IF x = k THEN v ELSE d[x]]
\* A lookup that leaves the entry in place (`.get` where the code has `.pop`).
DictPop_Keep(d, k) == d

DictPop(d, k) == [x \in DOMAIN d \ {k} |-> d[x]]

\* bot.py:131-138 with download_telegram_file (bot.py:40-70).  The network
\* calls of the download: get_file raises (nothing was made yet), or
\* download_file raises (mkstemp has made the file), or both return.  The
\* replies of on_video change no state of the program.
on_video(u, m) ==
    LET size == OrZero(m.file_size) IN
    IF ~IsVideoMessage(m) THEN
        UNCHANGED vars
    ELSE IF TooLarge(size) THEN
        /\ too_big' = TRUE
        /\ UNCHANGED <<MAX_COPIES, SEM, pending_files, files, jobs, frame>>
    ELSE
        \/ UNCHANGED vars
        \/ /\ NextFile <= MaxFiles
           /\ files' = DictSet(files, NextFile,
                               [state |-> "exists", big |-> size > MAX_BYTES])
           /\ \/ pending_files' = pending_files
              \/ pending_files' = DictSet(pending_files, u, NextFile)
           /\ UNCHANGED <<MAX_COPIES, SEM, jobs, too_big, frame>>

\* ------------------------------------------------------------------- jobs
\* One record per process_and_send task.  pc is the coroutine's position:
\*   "start"    at the start notification (bot.py:75)
\*   "acquire"  waiting in `async with SEM` (bot.py:80)           [Queued]
\*   "render"   unique_video is running in its thread (bot.py:82) [Rendering]
\*   "returned" / "raised"  the thread has ended, the coroutine has not
\*              resumed yet (it still holds the slot)
\*   "deliver"  in the loop over outputs (bot.py:85-88)           [Delivering]
\*   "report"   at the per-file failure report (bot.py:91)
\*   "except"   at the job failure notice (bot.py:96)
\*   "done"     the task has ended
NewJob(chat, f, input_path, copies, output_dir, progress_cb) ==
    [pc |-> "start", chat |-> chat, input |-> f, input_path |-> input_path,
     copies |-> copies, output_dir |-> output_dir, progress_cb |-> progress_cb,
     workdir |-> "none", i |-> 1, calls |-> <<>>, uv_outputs |-> <<>>,
     cb_calls |-> <<>>, outputs |-> <<>>, d |-> 1, tried |-> <<>>,
     sent |-> <<>>, reports |-> <<>>, notices |-> 0, completed |-> FALSE,
     crashed |-> FALSE, src_removed |-> 0, dir_removed |-> 0]

\* callback.data after "copies:": <<n>> when int() parses it, <<>> when not.
Payloads == {<<>>} \cup {<<n>> : n \in -1..(MaxCopiesCfg + 1)}

\* bot.py:146-149
ParseCopies(p) == IF p = <<>> THEN 1 ELSE p[1]

\* A clamp that forgets the upper limit.
ClampCopies_NoUpper(copies) == IF copies < 1 THEN 1 ELSE copies

\* bot.py:152-155
ClampCopies(copies) ==
    LET c == IF copies < 1 THEN 1 ELSE copies
    IN  IF c > MAX_COPIES THEN MAX_COPIES ELSE c

NextJob == Cardinality(DOMAIN jobs) + 1

\* The copies the tasks created so far were asked for; the model explores
\* the runs in which the clients ask for at most MaxTotalCopies in all.
RECURSIVE TotalCopies(_)
TotalCopies(n) == IF n = 0 THEN 0 ELSE jobs[n].copies + TotalCopies(n - 1)

\* bot.py:141-165.  callback.answer() raises (nothing happened yet), or the
\* "accepted" reply raises (the entry is popped, no task is created), or
\* the task is created.
on_copies(u, p) ==
    LET copies == ClampCopies(ParseCopies(p)) IN
    IF u \notin DOMAIN pending_files THEN
        UNCHANGED vars
    ELSE
        \/ UNCHANGED vars
        \/ /\ pending_files' = DictPop(pending_files, u)
           /\ \/ jobs' = jobs
              \/ /\ NextJob <= MaxJobs
                 /\ TotalCopies(NextJob - 1) + copies <= MaxTotalCopies
                 /\ jobs' = DictSet(jobs, NextJob,
                        NewJob(u, pending_files[u], TmpPath(pending_files[u]),
                               copies, <<WorkDir(NextJob)>>, "none"))
           /\ UNCHANGED <<MAX_COPIES, SEM, files, too_big, frame>>

SetJob(j, r) == jobs' = [jobs EXCEPT ![j] = r]

\* bot.py:80: entering `async with SEM`; a free semaphore is taken without
\* suspending, otherwise the coroutine waits.
EnterSem(job) ==
    IF SEM > 0 THEN [job EXCEPT !.pc = "render"] ELSE [job EXCEPT !.pc = "acquire"]

\* bot.py:75-80: the start notification, mkdtemp, and the entry of the
\* `async with`.  A raising notification ends the task there: it stands
\* before the try.
Start(j, ok) ==
    /\ jobs[j].pc = "start"
    /\ IF ok
       THEN /\ SetJob(j, EnterSem([jobs[j] EXCEPT !.workdir = "exists"]))
            /\ SEM' = IF SEM > 0 THEN SEM - 1 ELSE SEM
       ELSE /\ SetJob(j, [jobs[j] EXCEPT !.pc = "done", !.crashed = TRUE])
            /\ SEM' = SEM
    /\ UNCHANGED <<MAX_COPIES, pending_files, files, too_big, frame>>

\* A waiting coroutine that goes on without a free slot.
Acquire_NoWait(j) ==
    /\ jobs[j].pc = "acquire"
    /\ SEM' = SEM - 1
    /\ SetJob(j, [jobs[j] EXCEPT !.pc = "render"])
    /\ UNCHANGED <<MAX_COPIES, pending_files, files, too_big, frame>>

\* bot.py:80: a waiting coroutine gets the slot.
Acquire(j) ==
    /\ jobs[j].pc = "acquire"
    /\ SEM > 0
    /\ SEM' = SEM - 1
    /\ SetJob(j, [jobs[j] EXCEPT !.pc = "render"])
    /\ UNCHANGED <<MAX_COPIES, pending_files, files, too_big, frame>>

\* video_unique.py:216-218
OutputDirOf(job) ==
    IF job.output_dir = <<>> THEN default_output_dir(job.input_path)
    ELSE job.output_dir[1]

\* A copy loop that skips a copy that raised and goes on with the next.
UniqueOnce_SkipFailed(j, ok) ==
    LET job == jobs[j]
        out_path == output_path(job.input_path, OutputDirOf(job), job.i)
    IN  /\ job.pc = "render"
        /\ job.i <= job.copies
        /\ IF ok
           THEN SetJob(j, [job EXCEPT
                    !.calls = Append(@, job.i),
                    !.uv_outputs = Append(@, out_path),
                    !.cb_calls = IF job.progress_cb = "none" THEN @
                                 ELSE Append(@, <<job.i, out_path>>),
                    !.i = @ + 1])
           ELSE SetJob(j, [job EXCEPT !.calls = Append(@, job.i),
                                      !.i = @ + 1])
        /\ UNCHANGED <<MAX_COPIES, SEM, pending_files, files, too_big, frame>>

\* video_unique.py:221-230: one turn of the copy loop.  _unique_once
\* returns its path or raises; a raising progress callback is swallowed.
UniqueOnce(j, ok) ==
    LET job == jobs[j]
        out_path == output_path(job.input_path, OutputDirOf(job), job.i)
    IN  /\ job.pc = "render"
        /\ job.i <= job.copies
        /\ IF ok
           THEN SetJob(j, [job EXCEPT
                    !.calls = Append(@, job.i),
                    !.uv_outputs = Append(@, out_path),
                    !.cb_calls = IF job.progress_cb = "none" THEN @
                                 ELSE Append(@, <<job.i, out_path>>),
                    !.i = @ + 1])
           ELSE SetJob(j, [job EXCEPT !.calls = Append(@, job.i),
                                      !.pc = "raised"])
        /\ UNCHANGED <<MAX_COPIES, SEM, pending_files, files, too_big, frame>>

\* video_unique.py:231
UVReturn(j) ==
    /\ jobs[j].pc = "render"
    /\ jobs[j].i > jobs[j].copies
    /\ SetJob(j, [jobs[j] EXCEPT !.pc = "returned"])
    /\ UNCHANGED <<MAX_COPIES, SEM, pending_files, files, too_big, frame>>

\* A coroutine that releases the slot only when unique_video returned.
Resume_KeepSlotOnRaise(j) ==
    /\ jobs[j].pc \in {"returned", "raised"}
    /\ SEM' = IF jobs[j].pc = "returned" THEN SEM + 1 ELSE SEM
    /\ SetJob(j, IF jobs[j].pc = "returned"
                 THEN [jobs[j] EXCEPT !.pc = "deliver",
                                      !.outputs = jobs[j].uv_outputs]
                 ELSE [jobs[j] EXCEPT !.pc = "except"])
    /\ UNCHANGED <<MAX_COPIES, pending_files, files, too_big, frame>>

\* A coroutine that delivers the copies produced before the one that raised.
Resume_DeliverPartial(j) ==
    /\ jobs[j].pc \in {"returned", "raised"}
    /\ SEM' = SEM + 1
    /\ SetJob(j, [jobs[j] EXCEPT !.pc = "deliver",
                                 !.outputs = jobs[j].uv_outputs])
    /\ UNCHANGED <<MAX_COPIES, pending_files, files, too_big, frame>>

\* bot.py:80-82: the coroutine resumes with the thread's result or
\* exception and leaves the `async with`, which releases the slot.
Resume(j) ==
    /\ jobs[j].pc \in {"returned", "raised"}
    /\ SEM' = SEM + 1
    /\ SetJob(j, IF jobs[j].pc = "returned"
                 THEN [jobs[j] EXCEPT !.pc = "deliver",
                                      !.outputs = jobs[j].uv_outputs]
                 ELSE [jobs[j] EXCEPT !.pc = "except"])
    /\ UNCHANGED <<MAX_COPIES, pending_files, files, too_big, frame>>

\* bot.py:85-90: send_chat_action and send_video of outputs[d], both in one
\* try: either raising leads to the per-file report.
Deliver(j, ok) ==
    LET job == jobs[j] IN
    /\ job.pc = "deliver"
    /\ job.d <= Len(job.outputs)
    /\ SetJob(j, IF ok
                 THEN [job EXCEPT !.tried = Append(@, job.outputs[job.d]),
                                  !.sent = Append(@, job.outputs[job.d]),
                                  !.d = @ + 1]
                 ELSE [job EXCEPT !.tried = Append(@, job.outputs[job.d]),
                                  !.pc = "report"])
    /\ UNCHANGED <<MAX_COPIES, SEM, pending_files, files, too_big, frame>>

\* bot.py:91: the per-file report stands in the inner except clause; when
\* it raises, the exception leaves the loop for the outer except clause.
Report(j, ok) ==
    LET job == jobs[j] IN
    /\ job.pc = "report"
    /\ SetJob(j, IF ok
                 THEN [job EXCEPT !.reports = Append(@, job.outputs[job.d]),
                                  !.d = @ + 1, !.pc = "deliver"]
                 ELSE [job EXCEPT !.pc = "except"])
    /\ UNCHANGED <<MAX_COPIES, SEM, pending_files, files, too_big, frame>>

\* bot.py:97-107: the finally clause.
Finally(job) ==
    [job EXCEPT !.pc = "done",
                !.src_removed = IF /\ job.input \in DOMAIN files
                                   /\ files[job.input].state = "exists"
                                THEN @ + 1 ELSE @,
                !.workdir = "removed",
                !.dir_removed = @ + 1]

FilesAfterFinally(job) ==
    IF job.input \in DOMAIN files /\ files[job.input].state = "exists"
    THEN [files EXCEPT ![job.input].state = "deleted"]
    ELSE files

\* bot.py:93: the completion message, then the finally clause; when the
\* message raises, the outer except clause runs first.
Complete(j, ok) ==
    LET job == jobs[j] IN
    /\ job.pc = "deliver"
    /\ job.d > Len(job.outputs)
    /\ IF ok
       THEN /\ SetJob(j, Finally([job EXCEPT !.completed = TRUE]))
            /\ files' = FilesAfterFinally(job)
       ELSE /\ SetJob(j, [job EXCEPT !.pc = "except"])
            /\ files' = files
    /\ UNCHANGED <<MAX_COPIES, SEM, pending_files, too_big, frame>>

\* bot.py:94-107: the job failure notice, then the finally clause; when
\* the notice raises, the finally clause still runs and the exception
\* leaves the task.
FailureNotice(j, ok) ==
    LET job == jobs[j] IN
    /\ job.pc = "except"
    /\ SetJob(j, Finally(IF ok THEN [job EXCEPT !.notices = @ + 1]
                         ELSE [job EXCEPT !.crashed = TRUE]))
    /\ files' = FilesAfterFinally(job)
    /\ UNCHANGED <<MAX_COPIES, SEM, pending_files, too_big, frame>>

\* ---------------------------------------------------------- specification
EmptyDict == [x \in {} |-> 0]

NoFrame ==
    [stage |-> "none", strength |-> "medium", max_dim |-> 0,
     src_w |-> 0, src_h |-> 0, pre_w |-> 0, pre_h |-> 0, w |-> 0, h |-> 0,
     resize_factor |-> 0, scale_cap |-> <<1, 1>>, capped |-> FALSE]

Init ==
    /\ MAX_COPIES \in 0..MaxCopiesCfg
    /\ SEM = WORKERS
    /\ pending_files = EmptyDict
    /\ files = EmptyDict
    /\ jobs = EmptyDict
    /\ too_big = FALSE
    /\ frame = NoFrame

OnVideo == \E u \in Users, m \in Messages : on_video(u, m)
OnCopies == \E u \in Users, p \in Payloads : on_copies(u, p)
JobStart == \E j \in DOMAIN jobs, ok \in BOOLEAN : Start(j, ok)
JobAcquire == \E j \in DOMAIN jobs : Acquire(j)
JobUniqueOnce == \E j \in DOMAIN jobs, ok \in BOOLEAN : UniqueOnce(j, ok)
JobUVReturn == \E j \in DOMAIN jobs : UVReturn(j)
JobResume == \E j \in DOMAIN jobs : Resume(j)
JobDeliver == \E j \in DOMAIN jobs, ok \in BOOLEAN : Deliver(j, ok)
JobReport == \E j \in DOMAIN jobs, ok \in BOOLEAN : Report(j, ok)
JobComplete == \E j \in DOMAIN jobs, ok \in BOOLEAN : Complete(j, ok)
JobFailureNotice == \E j \in DOMAIN jobs, ok \in BOOLEAN : FailureNotice(j, ok)

Next ==
    \/ OnVideo
    \/ OnCopies
    \/ JobStart
    \/ JobAcquire
    \/ JobUniqueOnce
    \/ JobUVReturn
    \/ JobResume
    \/ JobDeliver
    \/ JobReport
    \/ JobComplete
    \/ JobFailureNotice

Spec == Init /\ [][Next]_vars

\* ------------------------------------------- unique_video called directly
\* unique_video(input_path, copies, output_dir, progress_cb) on its own:
\* the arguments are drawn from the sets below and the copy loop runs.
MaxUVCopies == 3

UVInputs ==
    {TmpPath(1),
     <<"clip", ".", "mp4">>,
     <<"/", "v", "/", "a", ".", "b", ".", "mov">>,
     <<"/", "v", ".", "d", "/", "noext">>,
     <<"/", "v", "/", ".", "hidden">>}

UVOutputDirs == {<<>>, <<WorkDir(1)>>, <<<<"out", "/">>>>}

InitUV ==
    /\ MAX_COPIES \in 0..MaxUVCopies
    /\ SEM = WORKERS
    /\ pending_files = EmptyDict
    /\ files = EmptyDict
    /\ too_big = FALSE
    /\ frame = NoFrame
    /\ \E input_path \in UVInputs, copies \in 0..MaxUVCopies,
          output_dir \in UVOutputDirs,
          progress_cb \in {"none", "returns", "raises"} :
          jobs = DictSet(EmptyDict, 1,
                     [NewJob(1, 0, input_path, copies, output_dir, progress_cb)
                         EXCEPT !.pc = "render"])

NextUV ==
    \/ JobUniqueOnce
    \/ JobUVReturn

SpecUV == InitUV /\ [][NextUV]_vars

\* ------------------------------------------------ the frame of _unique_once
\* The size of the clip through steps 1 and 2 of _unique_once
\* (video_unique.py:63-77).  A real factor is a number of hundredths; the
\* scale of the cap is the exact fraction <<numerator, denominator>>.

Max(a, b) == IF a >= b THEN a ELSE b
Min(a, b) == IF a <= b THEN a ELSE b

\* video_unique.py:23-51: the "resize" range of the profile, in hundredths.
strength_resize(strength) ==
    IF strength = "low" THEN <<95, 105>>
    ELSE IF strength = "high" THEN <<60, 140>>
    ELSE <<70, 130>>

\* video_unique.py:23-51: the largest angle of the "rotate" range, as the
\* sine in thousandths (0.5, 4 and 2 degrees).
strength_rotate_sin(strength) ==
    IF strength = "low" THEN 9
    ELSE IF strength = "high" THEN 70
    ELSE 35

\* A cap that fits the short side instead of the long side.
fit_within_max_dim_ShortSide(width, height, max_dim) ==
    LET max_side == Max(width, height)
        min_side == Min(width, height)
    IN  IF max_dim <= 0 \/ max_side <= max_dim
        THEN [w |-> width, h |-> height, scale |-> <<1, 1>>]
        ELSE [w |-> (width * max_dim) \div min_side,
              h |-> (height * max_dim) \div min_side,
              scale |-> <<max_dim, min_side>>]

\* video_unique.py:10-20
fit_within_max_dim(width, height, max_dim) ==
    LET max_side == Max(width, height) IN
    IF max_dim <= 0 \/ max_side <= max_dim
    THEN [w |-> width, h |-> height, scale |-> <<1, 1>>]
    ELSE [w |-> (width * max_dim) \div max_side,
          h |-> (height * max_dim) \div max_side,
          scale |-> <<max_dim, max_side>>]

\* int(x * scale) in floating point, scale being num / den rounded: the
\* floor of the exact product, or one less when the exact product is an
\* integer and the rounded product falls just below it.
FloatInt(x, num, den) ==
    LET q == (x * num) \div den
    IN  IF (x * num) % den = 0 /\ num # den /\ q > 0 THEN {q, q - 1} ELSE {q}

FrameStep == 5
ResizeFactors(strength) ==
    LET r == strength_resize(strength)
    IN  {f \in r[1]..r[2] : (f - r[1]) % FrameStep = 0}

\* video_unique.py:64,68: the sampled resize; the resizer truncates the
\* new size, and a side of 0 pixels makes it raise.
FrameResize ==
    /\ frame.stage = "loaded"
    /\ \E f \in ResizeFactors(frame.strength) :
          LET w == (frame.w * f) \div 100
              h == (frame.h * f) \div 100
          IN  frame' = [frame EXCEPT !.resize_factor = f, !.w = w, !.h = h,
                           !.stage = IF w = 0 \/ h = 0 THEN "raised"
                                     ELSE "resized"]
    /\ UNCHANGED <<MAX_COPIES, SEM, pending_files, files, jobs, too_big>>

\* video_unique.py:66,70: the rotation expands the frame to the bounding box
\* of the turned picture: no growth at angle 0, up to side * sin(angle) at
\* the profile's largest angle.
FrameRotate ==
    /\ frame.stage = "resized"
    /\ \E turned \in BOOLEAN :
          LET s == IF turned THEN strength_rotate_sin(frame.strength) ELSE 0
              w == frame.w + (frame.h * s) \div 1000
              h == frame.h + (frame.w * s) \div 1000
          IN  frame' = [frame EXCEPT !.w = w, !.h = h, !.pre_w = w,
                                     !.pre_h = h, !.stage = "rotated"]
    /\ UNCHANGED <<MAX_COPIES, SEM, pending_files, files, jobs, too_big>>

\* video_unique.py:74-77: the cap, applied when the scale is below 1.
FrameCap ==
    /\ frame.stage = "rotated"
    /\ LET fit == fit_within_max_dim(frame.w, frame.h, frame.max_dim)
           num == fit.scale[1]
           den == fit.scale[2]
       IN  IF num < den
           THEN \E w \in FloatInt(frame.w, num, den),
                   h \in FloatInt(frame.h, num, den) :
                    frame' = [frame EXCEPT !.w = w, !.h = h,
                                 !.scale_cap = fit.scale, !.capped = TRUE,
                                 !.stage = IF w = 0 \/ h = 0 THEN "raised"
                                           ELSE "final"]
           ELSE frame' = [frame EXCEPT !.scale_cap = fit.scale,
                                       !.stage = "final"]
    /\ UNCHANGED <<MAX_COPIES, SEM, pending_files, files, jobs, too_big>>

FrameSizes == {1, 2, 480, 720, 1080, 1920}

\* video_unique.py:74: MAX_DIM at its default; a value of 0 or less switches
\* the cap off (video_unique.py:14-15).
MAX_DIM == 720

InitFrame ==
    /\ MAX_COPIES = MaxCopiesCfg
    /\ SEM = WORKERS
    /\ pending_files = EmptyDict
    /\ files = EmptyDict
    /\ jobs = EmptyDict
    /\ too_big = FALSE
    /\ \E src_w \in FrameSizes, src_h \in FrameSizes,
          strength \in {"low", "medium", "high", "other"} :
          frame = [NoFrame EXCEPT !.stage = "loaded", !.strength = strength,
                                  !.max_dim = MAX_DIM, !.src_w = src_w,
                                  !.src_h = src_h, !.w = src_w, !.h = src_h]

NextFrame ==
    \/ FrameResize
    \/ FrameRotate
    \/ FrameCap

SpecFrame == InitFrame /\ [][NextFrame]_vars

\* ------------------------------------------------------------- properties
Range(q) == {q[n] : n \in 1..Len(q)}
UpTo(k) == [n \in 1..k |-> n]

\* The tasks inside `await asyncio.to_thread(unique_video, ...)`.
Rendering == {j \in DOMAIN jobs : jobs[j].pc \in {"render", "returned", "raised"}}

\* A call of _unique_once of the job has raised: an index was called and
\* produced no path.
RenderFailed(job) == Len(job.calls) > Len(job.uv_outputs)

AllDone == \A j \in DOMAIN jobs : jobs[j].pc = "done"

\* C1: at most WORKERS tasks are inside the unique_video call at any time,
\* the semaphore never goes below zero, and a task that is still before its
\* slot (at the start notification or waiting on the semaphore) has
\* rendered nothing.
C1_AtMostWorkersRendering ==
    /\ Cardinality(Rendering) <= WORKERS
    /\ SEM >= 0
    /\ \A j \in DOMAIN jobs :
          jobs[j].pc \in {"start", "acquire"} =>
              jobs[j].calls = <<>> /\ jobs[j].uv_outputs = <<>>

\* WORKERS + 1 tasks: WORKERS of them render, the other one waits.
C1_Witness ==
    /\ Cardinality({j \in DOMAIN jobs : jobs[j].pc = "render"}) = WORKERS
    /\ \E j \in DOMAIN jobs : jobs[j].pc = "acquire"

\* C2: every task that has ended has removed its working directory once
\* and deleted its source temp file once.
C2_EveryJobCleanedUp ==
    \A j \in DOMAIN jobs :
        jobs[j].pc = "done" =>
            /\ jobs[j].workdir = "removed"
            /\ jobs[j].dir_removed = 1
            /\ files[jobs[j].input].state = "deleted"
            /\ jobs[j].src_removed = 1

\* C3: the slots taken are exactly those of the tasks inside the
\* unique_video call; such a task has delivered nothing, sent no notice and
\* cleaned nothing; once every task has ended all WORKERS slots are free.
C3_SlotOnlyWhileRendering ==
    /\ SEM = WORKERS - Cardinality(Rendering)
    /\ \A j \in Rendering :
          /\ jobs[j].tried = <<>> /\ jobs[j].sent = <<>>
          /\ jobs[j].reports = <<>> /\ jobs[j].notices = 0
          /\ ~jobs[j].completed
          /\ jobs[j].workdir = "exists"
          /\ jobs[j].src_removed = 0 /\ jobs[j].dir_removed = 0
          /\ files[jobs[j].input].state = "exists"
    /\ AllDone => SEM = WORKERS

\* Every task has ended, one after a failed rendering and one after a
\* rendering that returned.
C3_Witness ==
    /\ AllDone
    /\ \E j \in DOMAIN jobs : RenderFailed(jobs[j])
    /\ \E j \in DOMAIN jobs : jobs[j].completed
    /\ SEM = WORKERS

\* C4: whatever deliveries failed, a task that has ended has attempted the
\* delivery of every path unique_video returned to it.
C4_DeliveryFailureIsolated ==
    \A j \in DOMAIN jobs :
        jobs[j].pc = "done" => jobs[j].tried = jobs[j].outputs

\* C5: when _unique_once raises at copy k, the indices called are exactly
\* 1..k, each once; the task goes on to the failure notice and ends, never
\* blocked; ended, it has removed the working directory and the source temp
\* file, and it holds no slot.
C5_RenderFailureAbortsAndCleans ==
    \A j \in DOMAIN jobs :
        RenderFailed(jobs[j]) =>
            /\ jobs[j].calls = UpTo(Len(jobs[j].calls))
            /\ Len(jobs[j].uv_outputs) = Len(jobs[j].calls) - 1
            /\ jobs[j].pc \in {"raised", "except", "done"}
            /\ jobs[j].pc = "raised" => ENABLED Resume(j)
            /\ jobs[j].pc = "except" => ENABLED FailureNotice(j, TRUE)
            /\ jobs[j].pc \in {"except", "done"} =>
                   SEM = WORKERS - Cardinality(Rendering \ {j})
            /\ jobs[j].pc = "done" =>
                   /\ jobs[j].workdir = "removed" /\ jobs[j].dir_removed = 1
                   /\ files[jobs[j].input].state = "deleted"
                   /\ jobs[j].src_removed = 1

\* A task whose copy 2 raised has ended.
C5_Witness ==
    \E j \in DOMAIN jobs :
        /\ jobs[j].calls = <<1, 2>>
        /\ Len(jobs[j].uv_outputs) = 1
        /\ jobs[j].pc = "done"

\* C6: a task sends at most one job failure notice; after a failed
\* rendering it attempts no delivery; every path sent is a path of a copy
\* that _unique_once produced.
C6_NoPartialDelivery ==
    \A j \in DOMAIN jobs :
        /\ jobs[j].notices <= 1
        /\ RenderFailed(jobs[j]) => jobs[j].tried = <<>> /\ jobs[j].sent = <<>>
        /\ Range(jobs[j].tried) \subseteq Range(jobs[j].uv_outputs)
        /\ Range(jobs[j].sent) \subseteq Range(jobs[j].tried)

\* A task whose copy 2 raised (copy 1 was produced) has sent its one notice.
C6_Witness ==
    \E j \in DOMAIN jobs :
        /\ RenderFailed(jobs[j])
        /\ Len(jobs[j].uv_outputs) = 1
        /\ jobs[j].notices = 1
        /\ jobs[j].pc = "done"

\* C8 as stated: the copy count of every task lies in 1..MAX_COPIES.
C8_CopiesClamped ==
    \A j \in DOMAIN jobs : jobs[j].copies \in 1..MAX_COPIES

\* C8, amended: when MAX_COPIES is at least 1, every payload is clamped
\* into 1..MAX_COPIES, a non-numeric payload gives 1, and the copy count of
\* every task, the one unique_video loops to, lies in 1..MAX_COPIES.
C8_CopiesClampedForPositiveMax ==
    MAX_COPIES >= 1 =>
        /\ \A p \in Payloads : ClampCopies(ParseCopies(p)) \in 1..MAX_COPIES
        /\ ClampCopies(ParseCopies(<<>>)) = 1
        /\ \A j \in DOMAIN jobs :
              /\ jobs[j].copies \in 1..MAX_COPIES
              /\ Len(jobs[j].calls) <= MAX_COPIES

\* With MAX_COPIES = 2 a task renders its second and last copy.
C8_Witness ==
    /\ MAX_COPIES = 2
    /\ \E j \in DOMAIN jobs :
          jobs[j].copies = MAX_COPIES /\ jobs[j].pc = "returned"

\* No temp file was made for a message whose file_size exceeds MAX_FILE_MB
\* megabytes; the entries of pending_files and the tasks refer to temp files.
C9_NothingForOversize ==
    /\ \A f \in DOMAIN files : ~files[f].big
    /\ \A u \in DOMAIN pending_files : pending_files[u] \in DOMAIN files
    /\ \A j \in DOMAIN jobs : jobs[j].input \in DOMAIN files

NameOf(p) ==
    LET tails == {SubSeq(p, k, Len(p)) : k \in 1..(Len(p) + 1)}
        names == {t \in tails : "/" \notin Range(t)}
    IN  CHOOSE t \in names : \A t2 \in names : Len(t2) <= Len(t)

\* A file name without its extension: the extension starts at the last
\* "." when something other than "." stands before it.
StemOf(name) ==
    LET cuts == {k \in 2..Len(name) :
                    /\ name[k] = "."
                    /\ \A m \in (k + 1)..Len(name) : name[m] # "."
                    /\ \E m \in 1..(k - 1) : name[m] # "."}
    IN  IF cuts = {} THEN name
        ELSE SubSeq(name, 1, (CHOOSE k \in cuts : TRUE) - 1)

\* A path with each run of "/" written once.
Norm(p) ==
    LET keep == {k \in 1..Len(p) : ~(p[k] = "/" /\ k > 1 /\ p[k - 1] = "/")}
    IN  [n \in 1..Cardinality(keep) |->
            p[CHOOSE k \in keep : Cardinality({m \in keep : m < k}) = n - 1]]

\* {source_basename_without_extension}_{i}.mp4
NameOfCopy(input_path, n) ==
    StemOf(NameOf(input_path)) \o <<"_", ToString(n), ".", "mp4">>

\* The n-th path is {output_dir}/{name of copy n}; without an output_dir the
\* file of that name lies in a directory "unique".
NamedAsCopy(job, n) ==
    LET name == NameOfCopy(job.input_path, n)
        path == job.uv_outputs[n]
    IN  IF job.output_dir # <<>>
        THEN Norm(path) = Norm(job.output_dir[1] \o <<"/">> \o name)
        ELSE /\ Len(path) >= Len(name) + 2
             /\ SubSeq(path, Len(path) - Len(name) + 1, Len(path)) = name
             /\ SubSeq(path, Len(path) - Len(name) - 1, Len(path) - Len(name))
                    = <<"unique", "/">>

\* C7: when unique_video returns for a copy count n in 1..MAX_COPIES, it has
\* called the one-copy pipeline with 1, 2, ..., n in that order, it returns
\* n paths, the i-th named {output_dir}/{source name without
\* extension}_{i}.mp4, no two equal, and a progress callback was called once
\* per copy with (i, i-th path), in order.
C7_OutputsNamedAndOrdered ==
    \A j \in DOMAIN jobs :
        LET job == jobs[j] IN
        job.pc = "returned" /\ job.copies \in 1..MAX_COPIES =>
            /\ job.calls = UpTo(job.copies)
            /\ Len(job.uv_outputs) = job.copies
            /\ \A n \in 1..job.copies : NamedAsCopy(job, n)
            /\ \A a, b \in 1..job.copies :
                  a # b => job.uv_outputs[a] # job.uv_outputs[b]
            /\ job.cb_calls =
                  IF job.progress_cb = "none" THEN <<>>
                  ELSE [n \in 1..job.copies |-> <<n, job.uv_outputs[n]>>]

\* unique_video has returned three copies of a source with two dots in its
\* name, with a progress callback that raises.
C7_Witness ==
    \E j \in DOMAIN jobs :
        /\ jobs[j].pc = "returned"
        /\ jobs[j].copies = 3 /\ MAX_COPIES = 3
        /\ jobs[j].progress_cb = "raises"
        /\ jobs[j].input_path = <<"/", "v", "/", "a", ".", "b", ".", "mov">>
        /\ jobs[j].output_dir # <<>>

\* C10 as stated: the output frame has its long edge within MAX_DIM and
\* neither side above the source's.
C10_CappedAndNeverUpscaled ==
    frame.stage = "final" =>
        /\ Max(frame.w, frame.h) <= frame.max_dim
        /\ frame.w <= frame.src_w
        /\ frame.h <= frame.src_h

\* C10, amended: with MAX_DIM at its default the output frame has its long
\* edge within MAX_DIM and the scale of the cap is min(1, MAX_DIM / max(w, h)) of
\* the frame the cap is given (the source after the sampled resize and the
\* rotation); the cap is applied exactly when its scale is below 1, it
\* scales both sides by that scale (truncated), and it never enlarges a side.
C10_CapBoundsLongEdge ==
    frame.stage = "final" =>
        LET num == frame.scale_cap[1]
            den == frame.scale_cap[2]
            max_side == Max(frame.pre_w, frame.pre_h)
        IN  /\ Max(frame.w, frame.h) <= frame.max_dim
            /\ num * Max(frame.max_dim, max_side) = den * frame.max_dim
            /\ frame.capped = (num < den)
            /\ frame.w <= frame.pre_w /\ frame.h <= frame.pre_h
            /\ ~frame.capped => frame.w = frame.pre_w /\ frame.h = frame.pre_h
            /\ frame.capped =>
                  /\ frame.w * den <= frame.pre_w * num
                  /\ frame.pre_w * num < (frame.w + 2) * den
                  /\ frame.h * den <= frame.pre_h * num
                  /\ frame.pre_h * num < (frame.h + 2) * den

\* A 1920 x 1080 source, enlarged by the sampled resize, was capped.
C10_Witness ==
    /\ frame.stage = "final"
    /\ frame.capped
    /\ frame.src_w = 1920 /\ frame.src_h = 1080
    /\ frame.resize_factor > 100
    /\ Max(frame.w, frame.h) = frame.max_dim

\* ---------------------------------------------------------------------
\* C11
\* ---------------------------------------------------------------------

PendingRefs == {pending_files[u] : u \in DOMAIN pending_files}

\* No two jobs share a source temp file, no file handed to a job is still
\* offered by pending_files, and a job that has not reached its finally
\* block works on a file that still exists.
C11_OneJobPerFile ==
    /\ \A j1, j2 \in DOMAIN jobs : j1 # j2 => jobs[j1].input # jobs[j2].input
    /\ \A j \in DOMAIN jobs : jobs[j].input \notin PendingRefs
    /\ \A j \in DOMAIN jobs :
         jobs[j].pc # "done" => files[jobs[j].input].state = "exists"

C12_NoOrphanTempFile ==
    \A f \in DOMAIN files :
        files[f].state = "exists" =>
            \/ f \in PendingRefs
            \/ \E j \in DOMAIN jobs : jobs[j].input = f /\ jobs[j].pc # "done"
====
